---- MODULE Spec2Model ----
(***************************************************************************)
(* Pointer Focus plugin for Gedit (pointerfocus/pointer_focus.py).         *)
(*                                                                         *)
(* The model holds the host's widget trees (what get_children,             *)
(* get_property('can_focus') and isinstance(.., gtk.Notebook) answer), the *)
(* table of signal handlers GObject keeps for connect/disconnect, the      *)
(* plugin's _instances dictionary and every PointerFocusWindowHelper       *)
(* object with its two handler dictionaries.                               *)
(***************************************************************************)
EXTENDS Integers, FiniteSets, Sequences, TLC

(* ---------------------------------------------------------------------- *)
(* Bounds                                                                  *)
(* ---------------------------------------------------------------------- *)

\* Helper objects constructed over a run (PointerFocusPlugin.activate calls).
MaxHelpers == 2

\* Handler ids GObject hands out over a run (connect calls).
MaxHandlerId == 6

\* Widgets whose kind and place are drawn freely for the tree-walk runs.
WalkSize == 4

(* ---------------------------------------------------------------------- *)
(* The host's widgets                                                      *)
(* ---------------------------------------------------------------------- *)

\* The Gedit main windows.
Windows == {1, 2}

\* Every widget of the model.
Widgets == 1..6

VARIABLES
    children,           \* widget -> the set widget.get_children() returns
    has_get_children,   \* widget -> whether the widget has a get_children method
    can_focus,          \* widget -> widget.get_property('can_focus')
    is_notebook,        \* widget -> isinstance(widget, gtk.Notebook)
    handlers,           \* GObject's connected signal handlers
    next_handler_id,    \* the id the next connect returns
    instances,          \* PointerFocusPlugin._instances: window -> helper
    helpers,            \* every helper object constructed: id -> its attributes
    hostActive,         \* windows Gedit has activated and not deactivated since
    deactivated,        \* helpers whose deactivate has run
    last                \* the operation that produced this state

vars == << children, has_get_children, can_focus, is_notebook, handlers,
           next_handler_id, instances, helpers, hostActive, deactivated,
           last >>

treeVars == << children, has_get_children, can_focus, is_notebook >>

pluginVars == << handlers, next_handler_id, instances, helpers, hostActive,
                 deactivated >>

EmptyMap == [x \in {} |-> 0]

Put(m, k, v) == [x \in (DOMAIN m) \cup {k} |-> IF x = k THEN v ELSE m[x]]

\* The element a loop over a set visits next.  Python leaves the order of a
\* set open; the loops of the plugin connect or disconnect one handler per
\* element, so another order only permutes the handler ids.
Min(S) == CHOOSE x \in S : \A y \in S : x <= y

\* The record of an operation: its name, its arguments, the helpers whose code
\* ran, the exception it ended with ("none" when it returned) and the widgets
\* it collected (a walk) or called grab_focus on (a pointer-enter).
Op(op, args, hs, exc, result) ==
    [op |-> op, args |-> args, helpers |-> hs, exc |-> exc, result |-> result]

(* ---------------------------------------------------------------------- *)
(* Tree shape, independent of the plugin's walks                           *)
(* ---------------------------------------------------------------------- *)

\* The containers holding w: none for a top-level or detached widget.
Parents(w) == {p \in Widgets : w \in children[p]}

RECURSIVE AncestorsOrSelf(_)
AncestorsOrSelf(w) ==
    {w} \cup UNION {AncestorsOrSelf(p) : p \in Parents(w)}

\* The widgets of the subtree rooted at root, root included.
Subtree(root) == {w \in Widgets : root \in AncestorsOrSelf(w)}

\* A forest: every widget has at most one parent, no widget is its own
\* ancestor, only a widget with get_children holds children, and a notebook
\* is a container.
WellFormedTree ==
    /\ \A p, q \in Widgets : p # q => children[p] \cap children[q] = {}
    /\ \A w \in Widgets : \A p \in Parents(w) : w \notin AncestorsOrSelf(p)
    /\ \A p \in Widgets : ~has_get_children[p] => children[p] = {}
    /\ \A p \in Widgets : is_notebook[p] => has_get_children[p]

(* ---------------------------------------------------------------------- *)
(* Collect widgets                                                         *)
(* ---------------------------------------------------------------------- *)

Ok(v) == [exc |-> "none", val |-> v]

Raise(e) == [exc |-> e, val |-> {}]

\* widget.get_children(): the children, or AttributeError when the widget has
\* no such method.
GetChildren(widget) ==
    IF has_get_children[widget] THEN Ok(children[widget])
    ELSE Raise("AttributeError")

\* The union of the results of walking each child; an exception raised by one
\* of the walks leaves the loop.
Gather(results) ==
    IF \E r \in results : r.exc # "none"
    THEN Raise((CHOOSE r \in results : r.exc # "none").exc)
    ELSE Ok(UNION {r.val : r \in results})

\* A walk with the except clause missing: the AttributeError of a widget
\* without get_children leaves the walk.
RECURSIVE GetNotebooksNoExcept(_)
GetNotebooksNoExcept(widget) ==
    LET got == GetChildren(widget) IN
    IF got.exc # "none" THEN Raise(got.exc)
    ELSE LET own == IF is_notebook[widget] THEN {widget} ELSE {}
             rest == Gather({GetNotebooksNoExcept(c) : c \in got.val})
         IN  IF rest.exc # "none" THEN rest ELSE Ok(own \cup rest.val)

RECURSIVE GetNotebooks(_)
GetNotebooks(widget) ==
    LET got == GetChildren(widget) IN
    IF got.exc = "AttributeError" THEN Ok({})
    ELSE LET own == IF is_notebook[widget] THEN {widget} ELSE {}
             rest == Gather({GetNotebooks(c) : c \in got.val})
         IN  IF rest.exc # "none" THEN rest ELSE Ok(own \cup rest.val)

\* A walk that tests can_focus after get_children succeeded: a widget without
\* get_children is never collected.
RECURSIVE GetFocusablesContainersOnly(_)
GetFocusablesContainersOnly(widget) ==
    LET got == GetChildren(widget) IN
    IF got.exc = "AttributeError" THEN Ok({})
    ELSE LET own == IF can_focus[widget] THEN {widget} ELSE {}
             rest == Gather({GetFocusablesContainersOnly(c) : c \in got.val})
         IN  IF rest.exc # "none" THEN rest ELSE Ok(own \cup rest.val)

\* A walk that looks at the widget and its direct children only.
GetFocusablesShallow(widget) ==
    LET own == IF can_focus[widget] THEN {widget} ELSE {}
        got == GetChildren(widget)
    IN  IF got.exc = "AttributeError" THEN Ok(own)
        ELSE Ok(own \cup {c \in got.val : can_focus[c]})

RECURSIVE GetFocusables(_)
GetFocusables(widget) ==
    LET own == IF can_focus[widget] THEN {widget} ELSE {}
        got == GetChildren(widget)
    IN  IF got.exc = "AttributeError" THEN Ok(own)
        ELSE LET rest == Gather({GetFocusables(c) : c \in got.val})
             IN  IF rest.exc # "none" THEN rest ELSE Ok(own \cup rest.val)

(* ---------------------------------------------------------------------- *)
(* GObject signal handlers and the helpers' dictionaries                   *)
(* ---------------------------------------------------------------------- *)

\* The part of the state the plugin's code changes, passed through the
\* statements of a method: the connected handlers, the next handler id and
\* the helper objects.
Heap == [handlers |-> handlers, next_id |-> next_handler_id, helpers |-> helpers]

\* A connected handler: the id connect returned, the widget and signal it is
\* connected to, and the helper whose bound method it calls.
Handler(id, widget, signal, h) ==
    [id |-> id, widget |-> widget, signal |-> signal, helper |-> h]

\* widget.connect(signal, <bound method of helper h>): a new handler under a
\* fresh id, whatever is connected already.
GtkConnect(st, widget, signal, h) ==
    [st EXCEPT !.handlers = @ \cup {Handler(st.next_id, widget, signal, h)},
               !.next_id = @ + 1]

\* widget.disconnect(id): the handler of that id on that widget is removed.
GtkDisconnect(st, widget, id) ==
    [st EXCEPT !.handlers = {x \in @ : ~(x.widget = widget /\ x.id = id)}]

\* The handlers a signal emitted on widget calls.
Connected(hs, widget, signal) ==
    {x \in hs : x.widget = widget /\ x.signal = signal}

\* PointerFocusWindowHelper.__init__
NewHelper(window) ==
    [window |-> window,
     handlers_per_notebook |-> EmptyMap,
     handlers_per_focusable |-> EmptyMap]

\* The loop body of _connect_notebooks.
ConnectNotebook(st, h, notebook) ==
    [GtkConnect(st, notebook, "page-added", h)
        EXCEPT !.helpers[h].handlers_per_notebook = Put(@, notebook, st.next_id)]

RECURSIVE ConnectNotebooks(_, _, _)
ConnectNotebooks(st, h, notebooks) ==
    IF notebooks = {} THEN st
    ELSE LET notebook == Min(notebooks) IN
         ConnectNotebooks(ConnectNotebook(st, h, notebook), h,
                          notebooks \ {notebook})

\* A loop body copied from _connect_notebooks that still stores the handler id
\* in the notebook dictionary.
ConnectFocusableWrongDict(st, h, focusable) ==
    [GtkConnect(st, focusable, "enter-notify-event", h)
        EXCEPT !.helpers[h].handlers_per_notebook = Put(@, focusable, st.next_id)]

\* The loop body of _connect_focusables.
ConnectFocusable(st, h, focusable) ==
    [GtkConnect(st, focusable, "enter-notify-event", h)
        EXCEPT !.helpers[h].handlers_per_focusable = Put(@, focusable, st.next_id)]

RECURSIVE ConnectFocusables(_, _, _)
ConnectFocusables(st, h, focusables) ==
    IF focusables = {} THEN st
    ELSE LET focusable == Min(focusables) IN
         ConnectFocusables(ConnectFocusable(st, h, focusable), h,
                           focusables \ {focusable})

RECURSIVE DisconnectEach(_, _)
DisconnectEach(st, map) ==
    IF DOMAIN map = {} THEN st
    ELSE LET w == Min(DOMAIN map) IN
         DisconnectEach(GtkDisconnect(st, w, map[w]),
                        [x \in (DOMAIN map) \ {w} |-> map[x]])

DisconnectNotebooks(st, h) ==
    [DisconnectEach(st, st.helpers[h].handlers_per_notebook)
        EXCEPT !.helpers[h].handlers_per_notebook = EmptyMap]

DisconnectFocusables(st, h) ==
    [DisconnectEach(st, st.helpers[h].handlers_per_focusable)
        EXCEPT !.helpers[h].handlers_per_focusable = EmptyMap]

(* ---------------------------------------------------------------------- *)
(* PointerFocusWindowHelper                                                *)
(* ---------------------------------------------------------------------- *)

\* The outcome of a method: the heap it leaves, the exception it ended with
\* and the focusable widgets it collected.
Outcome(st, exc, found) == [st |-> st, exc |-> exc, found |-> found]

\* An activate whose loop assigns instead of accumulating (= for |=): only
\* the focusable widgets of the notebook visited last are connected.
HelperActivateLastNotebookOnly(st, h) ==
    LET window == st.helpers[h].window
        notebooks == GetNotebooks(window).val
        st1 == ConnectNotebooks(st, h, notebooks)
        lastNb == {nb \in notebooks : \A other \in notebooks : other <= nb}
        focusables == Gather({GetFocusables(notebook) : notebook \in lastNb})
    IN  Outcome(ConnectFocusables(st1, h, focusables.val), "none",
                focusables.val)

\* The focusable widgets of one notebook after the other, each connected as
\* it is collected.
RECURSIVE ConnectPerNotebook(_, _, _)
ConnectPerNotebook(st, h, notebooks) ==
    IF notebooks = {} THEN st
    ELSE LET notebook == Min(notebooks) IN
         ConnectPerNotebook(
             ConnectFocusables(st, h, GetFocusables(notebook).val), h,
             notebooks \ {notebook})

\* An activate that connects per notebook instead of collecting one set first.
HelperActivatePerNotebook(st, h) ==
    LET window == st.helpers[h].window
        notebooks == GetNotebooks(window).val
        st1 == ConnectNotebooks(st, h, notebooks)
    IN  Outcome(ConnectPerNotebook(st1, h, notebooks), "none",
                UNION {GetFocusables(notebook).val : notebook \in notebooks})

HelperActivate(st, h) ==
    LET window == st.helpers[h].window
        notebooks == GetNotebooks(window)
    IN  IF notebooks.exc # "none" THEN Outcome(st, notebooks.exc, {})
        ELSE LET st1 == ConnectNotebooks(st, h, notebooks.val)
                 focusables == Gather({GetFocusables(notebook) :
                                          notebook \in notebooks.val})
             IN  IF focusables.exc # "none"
                 THEN Outcome(st1, focusables.exc, {})
                 ELSE Outcome(ConnectFocusables(st1, h, focusables.val),
                              "none", focusables.val)

\* A deactivate over dictionaries kept on the class instead of the object:
\* the handlers of every helper are disconnected and forgotten.
RECURSIVE DeactivateUpTo(_, _)
DeactivateUpTo(st, k) ==
    IF k = 0 THEN st
    ELSE DeactivateUpTo(DisconnectFocusables(DisconnectNotebooks(st, k), k),
                        k - 1)

HelperDeactivateSharedDicts(st, h) == DeactivateUpTo(st, Len(st.helpers))

HelperDeactivate(st, h) ==
    DisconnectFocusables(DisconnectNotebooks(st, h), h)

\* A handler that also connects the notebooks found in the new page.
OnPageAddedWithNotebooks(st, h, notebook, child) ==
    LET focusables == GetFocusables(child)
        notebooks == GetNotebooks(child)
    IN  Outcome(ConnectFocusables(ConnectNotebooks(st, h, notebooks.val), h,
                                  focusables.val),
                "none", focusables.val)

\* A handler that drops what the helper tracked before the new page.
OnPageAddedReplacing(st, h, notebook, child) ==
    LET focusables == GetFocusables(child)
        st0 == [st EXCEPT !.helpers[h].handlers_per_focusable = EmptyMap]
    IN  Outcome(ConnectFocusables(st0, h, focusables.val), "none",
                focusables.val)

OnPageAdded(st, h, notebook, child) ==
    LET focusables == GetFocusables(child) IN
    IF focusables.exc # "none" THEN Outcome(st, focusables.exc, {})
    ELSE Outcome(ConnectFocusables(st, h, focusables.val), "none",
                 focusables.val)

\* A handler that gives the focus to the helper's window.
OnEnterNotifyEventWindow(st, h, widget) == st.helpers[h].window

\* _on_enter_notify_event: the widget grab_focus is called on.
OnEnterNotifyEvent(st, h, widget) == widget

(* ---------------------------------------------------------------------- *)
(* Initial states                                                          *)
(* ---------------------------------------------------------------------- *)

\* The widgets of the editor scene besides the two windows: a notebook that
\* can take the focus (3), a notebook that cannot (4), a text view (5) and an
\* entry, which has no get_children (6).
SceneWidgets == Widgets \ Windows

\* Where each scene widget may sit when the plugin is loaded: the container
\* it is a child of.
SceneParents(w) ==
    CASE w = 3 -> {{1}}
      [] w = 4 -> {{2}, {3}}
      [] w = 5 -> {{3}, {4}, {1}}
      [] w = 6 -> {{5}, {3}, {1}}

TreeOf(par) ==
    [p \in Widgets |-> {w \in DOMAIN par : p \in par[w]}]

InitScene ==
    /\ has_get_children = [w \in Widgets |-> w # 6]
    /\ can_focus = [w \in Widgets |-> w \in {3, 5, 6}]
    /\ is_notebook = [w \in Widgets |-> w \in {3, 4}]
    /\ \E p3 \in SceneParents(3), p4 \in SceneParents(4),
          p5 \in SceneParents(5), p6 \in SceneParents(6) :
          children = TreeOf([w \in SceneWidgets |->
                                CASE w = 3 -> p3 [] w = 4 -> p4
                                  [] w = 5 -> p5 [] w = 6 -> p6])

\* PointerFocusPlugin.__init__: no helper yet, nothing connected.
InitPlugin ==
    /\ handlers = {}
    /\ next_handler_id = 1
    /\ instances = EmptyMap
    /\ helpers = << >>
    /\ hostActive = {}
    /\ deactivated = {}
    /\ last = Op("init", << >>, {}, "none", {})

Init == InitScene /\ InitPlugin

(* ---------------------------------------------------------------------- *)
(* PointerFocusPlugin                                                      *)
(* ---------------------------------------------------------------------- *)

SetHeap(st) ==
    /\ st.next_id <= MaxHandlerId + 1
    /\ handlers' = st.handlers
    /\ next_handler_id' = st.next_id
    /\ helpers' = st.helpers

\* self._instances.pop(window) gone wrong: every entry is dropped.
InstancesClear(window) == EmptyMap

\* self._instances.pop(window)
InstancesPop(window) ==
    [w \in (DOMAIN instances) \ {window} |-> instances[w]]

\* Gedit calls activate for a window.
PluginActivate(window) ==
    /\ Len(helpers) < MaxHelpers
    /\ LET h == Len(helpers) + 1
           st == [Heap EXCEPT !.helpers = Append(@, NewHelper(window))]
           out == HelperActivate(st, h)
       IN  /\ SetHeap(out.st)
           /\ instances' = Put(instances, window, h)
           /\ last' = Op("activate", << window >>, {h}, out.exc, out.found)
    /\ hostActive' = hostActive \cup {window}
    /\ UNCHANGED << treeVars, deactivated >>

\* A deactivate that looks the helper up with a default (dict.get) and
\* returns when there is none.
PluginDeactivateLenient(window) ==
    /\ IF window \in DOMAIN instances
       THEN LET h == instances[window] IN
            /\ SetHeap(HelperDeactivate(Heap, h))
            /\ instances' = InstancesPop(window)
            /\ deactivated' = deactivated \cup {h}
            /\ last' = Op("deactivate", << window >>, {h}, "none", {})
       ELSE /\ UNCHANGED << handlers, next_handler_id, helpers, instances,
                            deactivated >>
            /\ last' = Op("deactivate", << window >>, {}, "none", {})
    /\ hostActive' = hostActive \ {window}
    /\ UNCHANGED treeVars

\* Gedit calls deactivate for a window.
PluginDeactivate(window) ==
    /\ IF window \in DOMAIN instances
       THEN LET h == instances[window] IN
            /\ SetHeap(HelperDeactivate(Heap, h))
            /\ instances' = InstancesPop(window)
            /\ deactivated' = deactivated \cup {h}
            /\ last' = Op("deactivate", << window >>, {h}, "none", {})
       ELSE /\ UNCHANGED << handlers, next_handler_id, helpers, instances,
                            deactivated >>
            /\ last' = Op("deactivate", << window >>, {}, "KeyError", {})
    /\ hostActive' = hostActive \ {window}
    /\ UNCHANGED treeVars

(* ---------------------------------------------------------------------- *)
(* Signals the host emits                                                  *)
(* ---------------------------------------------------------------------- *)

\* The handlers of an emission run in the order they were connected; the
\* outcome keeps the last exception and what the last handler collected.
RECURSIVE EmitPageAdded(_, _, _, _)
EmitPageAdded(out, pending, notebook, child) ==
    IF pending = {} THEN out
    ELSE LET x == CHOOSE y \in pending : \A z \in pending : y.id <= z.id
             got == OnPageAdded(out.st, x.helper, notebook, child)
         IN  EmitPageAdded(
                 Outcome(got.st,
                         IF got.exc # "none" THEN got.exc ELSE out.exc,
                         got.found),
                 pending \ {x}, notebook, child)

\* The host adds a page to a notebook (a document is opened, a pane plugin is
\* activated, a tab is dropped on it) and the notebook emits page-added.  The
\* page is a widget that has no parent: its subtree is the same before and
\* after the step, so the handlers' walks read it from the unprimed tree.
HostAddPage(notebook, child) ==
    /\ is_notebook[notebook]
    /\ child \notin Windows
    /\ Parents(child) = {}
    /\ notebook \notin Subtree(child)
    /\ children' = [children EXCEPT ![notebook] = @ \cup {child}]
    /\ LET called == Connected(handlers, notebook, "page-added")
           out == EmitPageAdded(Outcome(Heap, "none", {}), called, notebook,
                                child)
       IN  /\ SetHeap(out.st)
           /\ last' = Op("page-added", << notebook, child >>,
                         {x.helper : x \in called}, out.exc, out.found)
    /\ UNCHANGED << has_get_children, can_focus, is_notebook, instances,
                    hostActive, deactivated >>

\* The host takes a page out of a notebook (a document is closed, a tab is
\* dragged away).  The plugin connects nothing to page-removed.
HostRemovePage(notebook, child) ==
    /\ is_notebook[notebook]
    /\ child \in children[notebook]
    /\ children' = [children EXCEPT ![notebook] = @ \ {child}]
    /\ last' = Op("page-removed", << notebook, child >>, {}, "none", {})
    /\ UNCHANGED << has_get_children, can_focus, is_notebook, pluginVars >>

\* The pointer enters a widget: enter-notify-event is emitted on it and every
\* handler connected to it runs; the record keeps the widgets grab_focus was
\* called on.  An event on a widget with no handler runs no code of the
\* plugin and is left out.
PointerEnter(widget) ==
    /\ LET called == Connected(handlers, widget, "enter-notify-event") IN
       /\ called # {}
       /\ last' = Op("enter", << widget >>, {x.helper : x \in called}, "none",
                     {OnEnterNotifyEvent(Heap, x.helper, widget) :
                         x \in called})
    /\ UNCHANGED << treeVars, pluginVars >>

Next ==
    \/ \E window \in Windows : PluginActivate(window)
    \/ \E window \in Windows : PluginDeactivate(window)
    \/ \E notebook, child \in Widgets : HostAddPage(notebook, child)
    \/ \E notebook, child \in Widgets : HostRemovePage(notebook, child)
    \/ \E widget \in Widgets : PointerEnter(widget)

Spec == Init /\ [][Next]_vars

(* ---------------------------------------------------------------------- *)
(* The walks on drawn trees                                                *)
(* ---------------------------------------------------------------------- *)

WalkWidgets == (1..WalkSize) \cap Widgets

\* Every forest over the walk widgets (a child's index is above its
\* parent's), every widget with or without get_children, focusable or not.
\* Only a widget with get_children holds children.  The other widgets are
\* bare leaves outside the forest.
InitWalk ==
    /\ \E par \in [WalkWidgets -> {0} \cup WalkWidgets] :
          /\ \A w \in WalkWidgets : par[w] < w
          /\ \E gc, cf \in [WalkWidgets -> BOOLEAN] :
                /\ \A w \in WalkWidgets : par[w] # 0 => gc[par[w]]
                /\ children = [p \in Widgets |->
                                  {w \in WalkWidgets : par[w] = p}]
                /\ has_get_children =
                       [w \in Widgets |-> w \in WalkWidgets /\ gc[w]]
                /\ can_focus = [w \in Widgets |-> w \in WalkWidgets /\ cf[w]]
    /\ is_notebook = [w \in Widgets |-> FALSE]
    /\ InitPlugin

\* A call of _get_focusables on a widget.
WalkFocusables(root) ==
    /\ LET got == GetFocusables(root) IN
       last' = Op("_get_focusables", << root >>, {}, got.exc, got.val)
    /\ UNCHANGED << treeVars, pluginVars >>

NextWalk == \E root \in WalkWidgets : WalkFocusables(root)

SpecWalk == InitWalk /\ [][NextWalk]_vars

(* ---------------------------------------------------------------------- *)
(* Vocabulary of the properties                                            *)
(* ---------------------------------------------------------------------- *)

HelperIds == 1..Len(helpers)

Signals == {"page-added", "enter-notify-event"}

\* The handlers helper h has connected to a signal of widget w and that are
\* still connected.
Subscriptions(h, w, signal) ==
    {x \in handlers : x.helper = h /\ x.widget = w /\ x.signal = signal}

NotebookKeys(h) == DOMAIN helpers[h].handlers_per_notebook

FocusableKeys(h) == DOMAIN helpers[h].handlers_per_focusable

\* Helper h tracks widget w in its focusable dictionary and the handle stored
\* there is a connected enter-notify-event handler of h on w.
TrackedAndSubscribed(h, w) ==
    /\ w \in FocusableKeys(h)
    /\ \E x \in Subscriptions(h, w, "enter-notify-event") :
          x.id = helpers[h].handlers_per_focusable[w]

\* The notebooks of the tree under a window.
NotebooksUnder(window) == {w \in Subtree(window) : is_notebook[w]}

\* The widgets lying in the subtree of a notebook of the window.
UnderNotebook(window) == UNION {Subtree(nb) : nb \in NotebooksUnder(window)}

\* The helper and window of the activate that produced this state.
LastHelper == CHOOSE h \in last.helpers : TRUE

Activated == last.op = "activate" /\ last.exc = "none"

(* ---------------------------------------------------------------------- *)
(* C1                                                                      *)
(* ---------------------------------------------------------------------- *)

\* C1: in every reachable state, every widget tracked in a helper's notebook
\* map or focusable map has, per signal, at most one connected handler made
\* by that helper.
C1_AtMostOneSubscription ==
    \A h \in HelperIds :
        \A w \in NotebookKeys(h) \cup FocusableKeys(h) :
            \A signal \in Signals :
                Cardinality(Subscriptions(h, w, signal)) <= 1

(* ---------------------------------------------------------------------- *)
(* C2                                                                      *)
(* ---------------------------------------------------------------------- *)

\* C2: once a helper's deactivate has run, no handler the helper connected is
\* still connected, and a pointer-enter calls no handler of that helper.
C2_NothingLeftAfterDeactivate ==
    /\ \A x \in handlers : x.helper \notin deactivated
    /\ last.op = "enter" => last.helpers \cap deactivated = {}

(* ---------------------------------------------------------------------- *)
(* C3                                                                      *)
(* ---------------------------------------------------------------------- *)

\* C3: a pointer-enter on a widget with a connected enter-notify-event
\* handler ends with grab_focus called on that widget and on no other.
C3_EnterGrabsEnteredWidget ==
    (last.op = "enter" /\ last.helpers # {}) => last.result = {last.args[1]}

\* The pointer entered a subscribed widget while the helper tracks another
\* widget as well.
C3_Witness ==
    /\ last.op = "enter"
    /\ \E h \in last.helpers :
          /\ last.args[1] \in FocusableKeys(h)
          /\ FocusableKeys(h) \ {last.args[1]} # {}
    /\ last.result = {last.args[1]}

(* ---------------------------------------------------------------------- *)
(* C4                                                                      *)
(* ---------------------------------------------------------------------- *)

\* C4 as stated: after activate, every focusable widget of the window's tree
\* has a connected enter-notify-event handler of the helper.
C4_EveryFocusableOfWindowSubscribed ==
    Activated =>
        \A w \in Subtree(last.args[1]) :
            can_focus[w] => TrackedAndSubscribed(LastHelper, w)

\* C4 amended: after activate, every focusable widget lying in the subtree of
\* a notebook of the window's tree has a connected enter-notify-event handler
\* of the helper.
C4_FocusablesUnderNotebooksSubscribed ==
    Activated =>
        \A w \in UnderNotebook(last.args[1]) :
            can_focus[w] => TrackedAndSubscribed(LastHelper, w)

\* An activate of a window with a focusable widget two levels below a
\* notebook, and with a focusable widget outside every notebook.
C4_Witness ==
    /\ Activated
    /\ \E nb \in NotebooksUnder(last.args[1]) :
          \E c \in children[nb] : \E w \in children[c] :
              can_focus[w] /\ TrackedAndSubscribed(LastHelper, w)
    /\ \E w \in Subtree(last.args[1]) \ UnderNotebook(last.args[1]) :
          can_focus[w]

(* ---------------------------------------------------------------------- *)
(* C5                                                                      *)
(* ---------------------------------------------------------------------- *)

\* C5: in every step, the key sets of both maps of a helper that has not been
\* deactivated keep every key they had, and both maps of a deactivated helper
\* are empty after the step.
C5_MapsGrowUntilTeardown ==
    [][ /\ \A h \in HelperIds :
              h \notin deactivated' =>
                  /\ NotebookKeys(h) \subseteq
                         DOMAIN helpers'[h].handlers_per_notebook
                  /\ FocusableKeys(h) \subseteq
                         DOMAIN helpers'[h].handlers_per_focusable
        /\ \A h \in deactivated' :
              /\ helpers'[h].handlers_per_notebook = EmptyMap
              /\ helpers'[h].handlers_per_focusable = EmptyMap ]_vars

\* A page-added handler has added keys to a helper that tracked other widgets
\* already, after another helper was torn down.
C5_Witness ==
    /\ last.op = "page-added"
    /\ \E h \in last.helpers :
          /\ last.result # {}
          /\ FocusableKeys(h) \ last.result # {}
    /\ \E h \in deactivated :
          /\ NotebookKeys(h) = {}
          /\ FocusableKeys(h) = {}

(* ---------------------------------------------------------------------- *)
(* C6                                                                      *)
(* ---------------------------------------------------------------------- *)

\* C6: after page-added on a notebook, every helper that tracks the notebook
\* tracks every focusable widget of the new page's subtree, each with a
\* connected enter-notify-event handler.
C6_PageAddedTracksSubtree ==
    last.op = "page-added" =>
        \A h \in HelperIds :
            last.args[1] \in NotebookKeys(h) =>
                \A w \in Subtree(last.args[2]) :
                    can_focus[w] => TrackedAndSubscribed(h, w)

\* A page was added to a tracked notebook, with a focusable widget two levels
\* below the page.
C6_Witness ==
    /\ last.op = "page-added"
    /\ \E h \in HelperIds :
          /\ last.args[1] \in NotebookKeys(h)
          /\ \E c \in children[last.args[2]] : \E w \in children[c] :
                can_focus[w] /\ TrackedAndSubscribed(h, w)

(* ---------------------------------------------------------------------- *)
(* C7                                                                      *)
(* ---------------------------------------------------------------------- *)

\* C7: _get_focusables(root) returns, without raising, exactly the widgets of
\* the subtree of root whose can_focus is true.
C7_GetFocusablesExact ==
    last.op = "_get_focusables" =>
        /\ last.exc = "none"
        /\ last.result = {w \in Subtree(last.args[1]) : can_focus[w]}

\* A walk from a root that cannot take the focus, which found a focusable
\* container one level down, a focusable widget without get_children two
\* levels down, and left out a widget that cannot take the focus.
C7_Witness ==
    /\ last.op = "_get_focusables"
    /\ ~can_focus[last.args[1]]
    /\ \E c \in children[last.args[1]] : \E w \in children[c] :
          /\ c \in last.result
          /\ w \in last.result
          /\ ~has_get_children[w]
    /\ \E w \in Subtree(last.args[1]) \ {last.args[1]} : w \notin last.result

(* ---------------------------------------------------------------------- *)
(* C8                                                                      *)
(* ---------------------------------------------------------------------- *)

\* The root of the walks of the operation that produced this state, and the
\* widgets those walks are to collect from.
WalkRoot == IF last.op = "activate" THEN last.args[1] ELSE last.args[2]

WalkRegion ==
    IF last.op = "activate" THEN UnderNotebook(last.args[1])
    ELSE Subtree(last.args[2])

\* C8: activate and the page-added handlers end without an exception, and
\* for every widget without get_children met by their walks, the widget has
\* no child, and it, its siblings and the widgets under its siblings are
\* tracked and subscribed wherever they are focusable and in the walk's
\* region.
C8_NoGetChildrenSkipped ==
    (last.op \in {"activate", "page-added"} /\ last.helpers # {}) =>
        /\ last.exc = "none"
        /\ \A x \in Subtree(WalkRoot) :
              ~has_get_children[x] =>
                  /\ Subtree(x) = {x}
                  /\ \A p \in Parents(x) : \A s \in children[p] :
                        \A w \in Subtree(s) \cap WalkRegion :
                            can_focus[w] =>
                                \A h \in last.helpers :
                                    TrackedAndSubscribed(h, w)

\* An activate whose walk met a widget without get_children next to a
\* focusable sibling, both under a notebook, and subscribed the sibling.
C8_Witness ==
    /\ Activated
    /\ \E x \in UnderNotebook(last.args[1]) :
          /\ ~has_get_children[x]
          /\ \E p \in Parents(x) : \E s \in children[p] \ {x} :
                /\ can_focus[s]
                /\ TrackedAndSubscribed(LastHelper, s)

(* ---------------------------------------------------------------------- *)
(* C9                                                                      *)
(* ---------------------------------------------------------------------- *)

\* C9: the keys of _instances are the windows activated and not deactivated
\* since, each maps to a helper bound to that window, and no two windows map
\* to the same helper.
C9_OneHelperPerWindow ==
    /\ DOMAIN instances = hostActive
    /\ \A w \in DOMAIN instances :
          /\ instances[w] \in HelperIds
          /\ helpers[instances[w]].window = w
    /\ \A w1, w2 \in DOMAIN instances :
          w1 # w2 => instances[w1] # instances[w2]

\* One window was deactivated while another stays activated.
C9_Witness ==
    /\ last.op = "deactivate"
    /\ last.exc = "none"
    /\ DOMAIN instances # {}
    /\ last.args[1] \notin DOMAIN instances

(* ---------------------------------------------------------------------- *)
(* C10                                                                     *)
(* ---------------------------------------------------------------------- *)

\* C10: right after activate, the notebook map's keys are the notebooks of
\* the window's tree, the focusable map's keys are the focusable widgets
\* under at least one of them, and the helper has exactly one connected
\* handler per key and signal.
C10_ActivateMapsExact ==
    Activated =>
        LET h == LastHelper
            window == last.args[1]
        IN  /\ NotebookKeys(h) = NotebooksUnder(window)
            /\ FocusableKeys(h) =
                   {w \in UnderNotebook(window) : can_focus[w]}
            /\ \A nb \in NotebookKeys(h) :
                  Cardinality(Subscriptions(h, nb, "page-added")) = 1
            /\ \A w \in FocusableKeys(h) :
                  Cardinality(Subscriptions(h, w, "enter-notify-event")) = 1
            /\ \A w \in Widgets \ FocusableKeys(h) :
                  Subscriptions(h, w, "enter-notify-event") = {}

\* An activate of a window with a notebook nested in a notebook and a
\* focusable widget under both, subscribed once.
C10_Witness ==
    /\ Activated
    /\ \E outer, inner \in NotebooksUnder(last.args[1]) :
          /\ outer # inner
          /\ inner \in Subtree(outer)
          /\ \E w \in Subtree(inner) :
                /\ can_focus[w]
                /\ Cardinality(Subscriptions(LastHelper, w,
                                             "enter-notify-event")) = 1

(* ---------------------------------------------------------------------- *)
(* C11                                                                     *)
(* ---------------------------------------------------------------------- *)

\* The handlers helper h has connected and that are still connected.
HandlersOf(hs, h) == {x \in hs : x.helper = h}

\* C11: a deactivate of one window leaves, for every other window of
\* _instances, its entry, its helper's two maps and its helper's connected
\* handlers as they were, and every widget of that helper's focusable map
\* keeps the connected handler the map names, so a pointer-enter on it still
\* grabs the focus.
C11_DeactivateLeavesOtherWindows ==
    [][ (last'.op = "deactivate" /\ last'.exc = "none") =>
            \A w2 \in (DOMAIN instances) \ {last'.args[1]} :
                LET h2 == instances[w2] IN
                /\ w2 \in DOMAIN instances'
                /\ instances'[w2] = h2
                /\ helpers'[h2] = helpers[h2]
                /\ HandlersOf(handlers', h2) = HandlersOf(handlers, h2)
                /\ \A w \in FocusableKeys(h2) :
                      \E x \in handlers' :
                          /\ x.helper = h2
                          /\ x.widget = w
                          /\ x.signal = "enter-notify-event"
                          /\ x.id = helpers[h2].handlers_per_focusable[w]
      ]_vars

\* One window was deactivated while the helper of the other window tracks a
\* focusable widget with a connected handler.
C11_Witness ==
    /\ last.op = "deactivate"
    /\ last.exc = "none"
    /\ \E w2 \in (DOMAIN instances) \ {last.args[1]} :
          /\ helpers[instances[w2]].window = w2
          /\ \E w \in FocusableKeys(instances[w2]) :
                /\ w \in Subtree(w2)
                /\ TrackedAndSubscribed(instances[w2], w)
    /\ \E h \in deactivated : helpers[h].window = last.args[1]

(* ---------------------------------------------------------------------- *)
(* C12                                                                     *)
(* ---------------------------------------------------------------------- *)

PageAddedHandlers(hs) == {x \in hs : x.signal = "page-added"}

\* C12: a pointer-enter changes no helper's maps and no connected handler; a
\* page-added changes no helper's notebook map and no connected page-added
\* handler, so a notebook inside the new page gets no page-added handler.
C12_HandlersFootprint ==
    [][ /\ last'.op = "enter" =>
              /\ helpers' = helpers
              /\ handlers' = handlers
        /\ last'.op = "page-added" =>
              /\ \A h \in HelperIds :
                    helpers'[h].handlers_per_notebook =
                        helpers[h].handlers_per_notebook
              /\ PageAddedHandlers(handlers') = PageAddedHandlers(handlers)
      ]_vars

\* A page holding a notebook was added after activation: the helper tracks a
\* focusable widget under that notebook, not the notebook.
C12_Witness ==
    /\ last.op = "page-added"
    /\ \E h \in last.helpers :
          \E nb \in Subtree(last.args[2]) :
              /\ is_notebook[nb]
              /\ nb \notin NotebookKeys(h)
              /\ Subscriptions(h, nb, "page-added") = {}
              /\ \E w \in Subtree(nb) :
                    can_focus[w] /\ TrackedAndSubscribed(h, w)

(* ---------------------------------------------------------------------- *)
(* C13                                                                     *)
(* ---------------------------------------------------------------------- *)

\* The handle a map of helper h stores for widget w names a connected handler
\* of h on w for the map's signal, and names no handler of another widget.
HandleIsLive(h, w, id, signal) ==
    /\ \E x \in Subscriptions(h, w, signal) : x.id = id
    /\ \A y \in handlers : y.id = id => y.widget = w /\ y.helper = h

\* C13: for every helper not yet deactivated, every entry of its notebook map
\* names a connected page-added handler of the helper on that notebook, and
\* every entry of its focusable map names a connected enter-notify-event
\* handler of the helper on that widget.
C13_StoredHandlesAreLive ==
    \A h \in HelperIds \ deactivated :
        /\ \A nb \in NotebookKeys(h) :
              HandleIsLive(h, nb, helpers[h].handlers_per_notebook[nb],
                           "page-added")
        /\ \A w \in FocusableKeys(h) :
              HandleIsLive(h, w, helpers[h].handlers_per_focusable[w],
                           "enter-notify-event")

\* An activated helper tracks a notebook and a widget it has connected twice:
\* the focusable map names the newer handler, which is connected.
C13_Witness ==
    \E h \in HelperIds \ deactivated :
        /\ NotebookKeys(h) # {}
        /\ \E w \in FocusableKeys(h) :
              /\ Cardinality(Subscriptions(h, w, "enter-notify-event")) = 2
              /\ \A x \in Subscriptions(h, w, "enter-notify-event") :
                    x.id <= helpers[h].handlers_per_focusable[w]
              /\ TrackedAndSubscribed(h, w)

(* ---------------------------------------------------------------------- *)
(* C14                                                                     *)
(* ---------------------------------------------------------------------- *)

\* C14: a deactivate for a window that has no entry in _instances ends with
\* KeyError, runs no helper's code and leaves _instances, the helpers, the
\* connected handlers and the set of deactivated helpers as they were.
C14_DeactivateWithoutEntryFails ==
    [][ (last'.op = "deactivate" /\ last'.args[1] \notin DOMAIN instances) =>
            /\ last'.exc = "KeyError"
            /\ last'.helpers = {}
            /\ instances' = instances
            /\ helpers' = helpers
            /\ handlers' = handlers
            /\ deactivated' = deactivated
      ]_vars

\* A deactivate for a window without entry failed while another window is
\* activated, with its helper's handlers connected.
C14_Witness ==
    /\ last.op = "deactivate"
    /\ last.exc = "KeyError"
    /\ last.args[1] \notin DOMAIN instances
    /\ \E w2 \in DOMAIN instances :
          /\ w2 # last.args[1]
          /\ HandlersOf(handlers, instances[w2]) # {}
          /\ instances[w2] \notin deactivated

====
